---- MODULE Spec2Model ----
(***************************************************************************)
(* Model of modules/metadata.py: the content-hash cache, the parser        *)
(* instance state filled by set_data, the A1111 text codec, the Fooocus    *)
(* structured codec and the scheme detection of read_info_from_image.      *)
(*                                                                         *)
(* Python str values are TLA+ strings; a character is a string of length   *)
(* one.  A Python dict is a function whose DOMAIN is the set of its keys.  *)
(* None is the tagged value PyNone wherever a value may be None or a str.  *)
(***************************************************************************)
EXTENDS Integers, Sequences, FiniteSets, TLC

VARIABLES
    model_filenames,   \* modules.config.model_filenames
    lora_filenames,    \* modules.config.lora_filenames
    metadata_created_by,  \* modules.config.metadata_created_by
    hash_cache,        \* the module-level dict hash_cache
    sha256_calls,      \* per path: how often calculate_sha256 was invoked, and its first digest
    parser,            \* the fields of one MetadataParser instance
    pc,                \* the caller's position: which call it makes next / made last
    arg,               \* the caller's argument object (a callee may mutate it)
    ret,               \* what the last call returned
    raised             \* the exception the last call raised ("" when it returned)

\* the state of modules.config
config == <<model_filenames, lora_filenames, metadata_created_by>>

vars == <<config, hash_cache, sha256_calls, parser, pc, arg, ret, raised>>

----------------------------------------------------------------------------
(* Python str primitives *)

Char(s, i) == SubSeq(s, i, i)

Whitespace == {" ", "\n", "\t", "\r"}

Digits == {"0", "1", "2", "3", "4", "5", "6", "7", "8", "9"}

Letters ==
    {"a", "b", "c", "d", "e", "f", "g", "h", "i", "j", "k", "l", "m",
     "n", "o", "p", "q", "r", "s", "t", "u", "v", "w", "x", "y", "z",
     "A", "B", "C", "D", "E", "F", "G", "H", "I", "J", "K", "L", "M",
     "N", "O", "P", "Q", "R", "S", "T", "U", "V", "W", "X", "Y", "Z"}

\* the regex class \w
WordChars == Letters \cup Digits \cup {"_"}

\* code-point order of the characters the model's texts use
Ascii ==
    "\t\n\r !\"'(),-./0123456789:ABCDEFGHIJKLMNOPQRSTUVWXYZ[\\]_abcdefghijklmnopqrstuvwxyz{}"

Ord(c) == CHOOSE i \in 1..Len(Ascii) : Char(Ascii, i) = c

\* the least index of lo..hi where P holds, 0 when there is none
FirstIndex(lo, hi, P(_)) ==
    IF \E j \in lo..hi : P(j)
    THEN CHOOSE j \in lo..hi : P(j) /\ \A k \in lo..(j - 1) : ~P(k)
    ELSE 0

\* the greatest index of lo..hi where P holds, 0 when there is none
LastIndex(lo, hi, P(_)) ==
    IF \E j \in lo..hi : P(j)
    THEN CHOOSE j \in lo..hi : P(j) /\ \A k \in (j + 1)..hi : ~P(k)
    ELSE 0

\* a < b at the first index i where a and b differ or one of them has ended
StrLessAt(a, b, i) ==
    IF i > Len(a) THEN i <= Len(b)
    ELSE IF i > Len(b) THEN FALSE
    ELSE Ord(Char(a, i)) < Ord(Char(b, i))

\* a < b on Python str
StrLess(a, b) ==
    StrLessAt(a, b, FirstIndex(1, Len(a) + 1,
                               LAMBDA i : i > Len(a) \/ i > Len(b) \/ Char(a, i) # Char(b, i)))

\* the first index >= i of s that holds no character of class (Len(s) + 1 when none)
RunEnd(s, i, class) ==
    IF i > Len(s) THEN i
    ELSE FirstIndex(i, Len(s) + 1, LAMBDA j : j > Len(s) \/ Char(s, j) \notin class)

\* the first index >= i of s that holds no whitespace (Len(s) + 1 when none)
SkipSpace(s, i) == RunEnd(s, i, Whitespace)

\* the last index <= i of s that holds no whitespace (0 when none)
SkipSpaceBack(s, i) == LastIndex(1, i, LAMBDA j : Char(s, j) \notin Whitespace)

\* str.strip()
Strip(s) ==
    LET a == SkipSpace(s, 1)
        b == SkipSpaceBack(s, Len(s))
    IN  IF a > b THEN "" ELSE SubSeq(s, a, b)

\* str.startswith(p)
StartsWith(s, p) == Len(s) >= Len(p) /\ SubSeq(s, 1, Len(p)) = p

\* str.find(sep, i - 1) + 1: the first index >= i where sep occurs in s, 0 when none
Find(s, sep, i) ==
    FirstIndex(i, Len(s) - Len(sep) + 1, LAMBDA j : SubSeq(s, j, j + Len(sep) - 1) = sep)

\* str.rfind(c) + 1 for a character c, searching down from index i
RFind(s, c, i) == LastIndex(1, i, LAMBDA j : Char(s, j) = c)

RECURSIVE SplitFrom(_, _, _)
SplitFrom(s, sep, i) ==
    LET j == Find(s, sep, i)
    IN  IF j = 0 THEN <<SubSeq(s, i, Len(s))>>
        ELSE <<SubSeq(s, i, j - 1)>> \o SplitFrom(s, sep, j + Len(sep))

\* str.split(sep), sep not empty
Split(s, sep) == SplitFrom(s, sep, 1)

RECURSIVE JoinRange(_, _, _, _)
\* parts[lo] .. parts[hi] with sep between them, lo <= hi
JoinRange(sep, parts, lo, hi) ==
    IF lo = hi THEN parts[lo]
    ELSE JoinRange(sep, parts, lo, (lo + hi) \div 2) \o sep
         \o JoinRange(sep, parts, ((lo + hi) \div 2) + 1, hi)

\* sep.join(parts)
Join(sep, parts) == IF Len(parts) = 0 THEN "" ELSE JoinRange(sep, parts, 1, Len(parts))

RECURSIVE NatToStr(_)
\* str(n) for an int n >= 0
NatToStr(n) ==
    LET d == Char("0123456789", (n % 10) + 1)
    IN  IF n < 10 THEN d ELSE NatToStr(n \div 10) \o d

AllDigits(s) == Len(s) > 0 /\ \A i \in 1..Len(s) : Char(s, i) \in Digits

RECURSIVE StrToNat(_)
StrToNat(s) ==
    IF Len(s) = 0 THEN 0
    ELSE 10 * StrToNat(SubSeq(s, 1, Len(s) - 1)) + (Ord(Char(s, Len(s))) - Ord("0"))

\* pathlib.Path(name).stem on a POSIX path: the last component without its last suffix
Stem(name) ==
    LET slash == RFind(name, "/", Len(name))
        base  == SubSeq(name, slash + 1, Len(name))
        dot   == RFind(base, ".", Len(base))
    IN  IF 1 < dot /\ dot < Len(base) THEN SubSeq(base, 1, dot - 1) ELSE base

\* os.path.join(a, b) on POSIX
PathJoin(a, b) ==
    IF StartsWith(b, "/") THEN b
    ELSE IF a = "" \/ Char(a, Len(a)) = "/" THEN a \o b
    ELSE a \o "/" \o b

\* d[k] = v on a dict
Put(d, k, v) == (k :> v) @@ d

EmptyDict == [x \in {} |-> ""]

\* TRUE, and x has been computed once this is: Python computes the value a loop
\* carries before the next iteration starts
Evaluated(x) == x = x

\* x, computed once however often it is read
Computed(x) == IF Evaluated(x) THEN x ELSE x

----------------------------------------------------------------------------
(* Configuration and collaborators (modules.config, modules.util) *)

\* modules.config.path_checkpoints
path_checkpoints == "/ckpt"

\* modules.config.path_loras
path_loras == "/loras"

\* modules.config.downloading_sdxl_lcm_lora(): the reserved, always-available LoRA
sdxl_lcm_lora == "sdxl_lcm_lora.safetensors"

\* the files set_data is asked to hash in the model
BaseModelChoices == {"juggernaut.safetensors", "sub/realistic.v2.ckpt"}

RefinerChoices == {"", "None", "refiner.safetensors"}

LoraChoices == {<<"None", "1.0">>, <<"styleA.safetensors", "0.8">>, <<sdxl_lcm_lora, "1.0">>}

\* the longest LoRA list handed to set_data
MaxLoras == 1

RECURSIVE SeqsUpTo(_, _)
\* the sequences over S of length at most n
SeqsUpTo(S, n) ==
    IF n = 0 THEN {<<>>}
    ELSE LET shorter == SeqsUpTo(S, n - 1)
         IN  shorter \cup {Append(q, x) : q \in {r \in shorter : Len(r) = n - 1}, x \in S}

CheckpointPaths ==
    {PathJoin(path_checkpoints, f) : f \in BaseModelChoices \cup (RefinerChoices \ {"", "None"})}

HashedPaths ==
    CheckpointPaths \cup {PathJoin(path_loras, l[1]) : l \in {c \in LoraChoices : c[1] # "None"}}

\* the contents of the hashed files: which of them hash to "d1", the others to "d2"
Disks ==
    {[p \in HashedPaths |-> IF p \in S THEN "d1" ELSE "d2"] :
        S \in {CheckpointPaths, {"/ckpt/juggernaut.safetensors", "/loras/styleA.safetensors"}}}

----------------------------------------------------------------------------
(* get_sha256: the memoised content hash.  A call's outcome is the new     *)
(* cache, the new log of calculate_sha256 invocations and the value        *)
(* returned; disk[filepath] is the digest calculate_sha256 returns.        *)

\* one invocation of calculate_sha256(filepath), logged
calculate_sha256(calls, disk, filepath) ==
    IF filepath \in DOMAIN calls
    THEN [calls EXCEPT ![filepath] = [n |-> @.n + 1, first |-> @.first]]
    ELSE Put(calls, filepath, [n |-> 1, first |-> disk[filepath]])

get_sha256_uncached(cache, calls, disk, filepath) ==
    [cache |-> Put(cache, filepath, disk[filepath]),
     calls |-> calculate_sha256(calls, disk, filepath),
     value |-> disk[filepath]]

get_sha256(cache, calls, disk, filepath) ==
    IF filepath \notin DOMAIN cache
    THEN [cache |-> Put(cache, filepath, disk[filepath]),
          calls |-> calculate_sha256(calls, disk, filepath),
          value |-> disk[filepath]]
    ELSE [cache |-> cache, calls |-> calls, value |-> cache[filepath]]

----------------------------------------------------------------------------
(* MetadataParser: the instance fields and set_data *)

\* MetadataParser.__init__
NewParser(scheme) ==
    [scheme |-> scheme,
     full_prompt |-> <<>>,
     full_negative_prompt |-> <<>>,
     steps |-> 30,
     base_model_name |-> "",
     base_model_hash |-> "",
     refiner_model_name |-> "",
     refiner_model_hash |-> "",
     loras |-> <<>>]

RECURSIVE set_data_loras(_, _, _, _, _)
\* the loop of set_data over loras, from index i: the hash state and self.loras
set_data_loras(st, disk, loras, i, acc) ==
    IF i > Len(loras) THEN [cache |-> st.cache, calls |-> st.calls, loras |-> acc]
    ELSE IF loras[i][1] # "None"
    THEN LET h == get_sha256(st.cache, st.calls, disk, PathJoin(path_loras, loras[i][1]))
         IN  set_data_loras(h, disk, loras, i + 1,
                            Append(acc, <<Stem(loras[i][1]), loras[i][2], h.value>>))
    ELSE set_data_loras(st, disk, loras, i + 1, acc)

\* the refiner branch of set_data
set_data_refiner(self, h, refiner_model_name) ==
    IF refiner_model_name \notin {"", "None"}
    THEN [self EXCEPT !.refiner_model_name = Stem(refiner_model_name),
                      !.refiner_model_hash = h.value]
    ELSE self

\* MetadataParser.set_data: the instance afterwards, with the hash cache and call log
set_data(self, cache, calls, disk, a) ==
    LET hb == get_sha256(cache, calls, disk, PathJoin(path_checkpoints, a.base_model_name))
        hr == IF a.refiner_model_name \notin {"", "None"}
              THEN get_sha256(hb.cache, hb.calls, disk,
                              PathJoin(path_checkpoints, a.refiner_model_name))
              ELSE hb
        hl == set_data_loras(hr, disk, a.loras, 1, <<>>)
        s1 == [self EXCEPT !.full_prompt = a.full_prompt,
                           !.full_negative_prompt = a.full_negative_prompt,
                           !.steps = a.steps,
                           !.base_model_name = Stem(a.base_model_name),
                           !.base_model_hash = hb.value]
        s2 == set_data_refiner(s1, hr, a.refiner_model_name)
    IN  [self |-> [s2 EXCEPT !.loras = hl.loras], cache |-> hl.cache, calls |-> hl.calls]

\* get_metadata_parser
get_metadata_parser(metadata_scheme) ==
    IF metadata_scheme \in {"fooocus", "a1111"}
    THEN [raised |-> "", parser |-> NewParser(metadata_scheme)]
    ELSE [raised |-> "NotImplementedError", parser |-> NewParser("")]

----------------------------------------------------------------------------
(* Spec: one process that creates parser instances, calls set_data on the  *)
(* current one and calls get_sha256 directly, in any order.  arg keeps the *)
(* last call's arguments; arg.disk is what calculate_sha256 returns for    *)
(* each file, fixed for the process run.                                   *)

SetDataArgs ==
    [full_prompt : {<<"cat">>},
     full_negative_prompt : {<<"dog">>},
     steps : {30},
     base_model_name : BaseModelChoices,
     refiner_model_name : RefinerChoices,
     loras : SeqsUpTo(LoraChoices, MaxLoras)]

Init ==
    /\ model_filenames = <<"juggernaut.safetensors">>
    /\ lora_filenames = <<sdxl_lcm_lora, "styleA.safetensors">>
    /\ metadata_created_by = ""
    /\ hash_cache = EmptyDict
    /\ sha256_calls = EmptyDict
    /\ parser = NewParser("fooocus")
    /\ pc = "start"
    /\ \E disk \in Disks : arg = [disk |-> disk]
    /\ ret = ""
    /\ raised = ""

GetMetadataParser ==
    \E scheme \in {"fooocus", "a1111", "png"} :
        LET r == get_metadata_parser(scheme)
        IN  /\ pc' = "get_metadata_parser"
            /\ arg' = [disk |-> arg.disk, scheme |-> scheme]
            /\ raised' = r.raised
            /\ parser' = IF r.raised = "" THEN r.parser ELSE parser
            /\ ret' = ""
            /\ UNCHANGED <<config, hash_cache, sha256_calls>>

SetData ==
    \E a \in SetDataArgs :
        LET r == set_data(parser, hash_cache, sha256_calls, arg.disk, a)
        IN  /\ pc' = "set_data"
            /\ arg' = [disk |-> arg.disk, a |-> a]
            /\ parser' = r.self
            /\ hash_cache' = r.cache
            /\ sha256_calls' = r.calls
            /\ ret' = ""
            /\ raised' = ""
            /\ UNCHANGED config

GetSha256 ==
    \E filepath \in HashedPaths :
        LET r == get_sha256(hash_cache, sha256_calls, arg.disk, filepath)
        IN  /\ pc' = "get_sha256"
            /\ arg' = [disk |-> arg.disk, filepath |-> filepath]
            /\ hash_cache' = r.cache
            /\ sha256_calls' = r.calls
            /\ ret' = r.value
            /\ raised' = ""
            /\ UNCHANGED <<config, parser>>

Next == GetMetadataParser \/ SetData \/ GetSha256

Spec == Init /\ [][Next]_vars

----------------------------------------------------------------------------
(* Properties of the hash cache and of set_data, checked under Spec *)

\* the (name, weight) pairs set_data does not skip
NonNoneLoras(loras) == SelectSeq(loras, LAMBDA l : l[1] # "None")

\* C1: in one process calculate_sha256 is invoked at most once per file path, and
\* every get_sha256 result, direct or stored by set_data, is the digest that first
\* invocation computed.
C1_HashComputedOncePerPath ==
    /\ \A p \in DOMAIN sha256_calls : sha256_calls[p].n <= 1
    /\ \A p \in DOMAIN hash_cache :
          p \in DOMAIN sha256_calls /\ hash_cache[p] = sha256_calls[p].first
    /\ pc = "get_sha256" => ret = sha256_calls[arg.filepath].first
    /\ pc = "set_data" =>
          /\ parser.base_model_hash =
                sha256_calls[PathJoin(path_checkpoints, arg.a.base_model_name)].first
          /\ arg.a.refiner_model_name \notin {"", "None"} =>
                parser.refiner_model_hash =
                    sha256_calls[PathJoin(path_checkpoints, arg.a.refiner_model_name)].first
          /\ Len(parser.loras) = Len(NonNoneLoras(arg.a.loras))
          /\ \A j \in 1..Len(parser.loras) :
                parser.loras[j][3] =
                    sha256_calls[PathJoin(path_loras, NonNoneLoras(arg.a.loras)[j][1])].first

\* C1 witness: a direct get_sha256 of the base model file after a set_data that
\* hashed it, with a second file hashed as well.
C1_Witness ==
    /\ pc = "get_sha256"
    /\ arg.filepath = PathJoin(path_checkpoints, "juggernaut.safetensors")
    /\ parser.base_model_name = "juggernaut"
    /\ parser.base_model_hash = ret
    /\ Cardinality(DOMAIN sha256_calls) >= 2

\* C5: after a set_data whose refiner_model_name is '' or 'None' the instance's
\* refiner name and hash are empty, whatever was called on it before; after a
\* set_data with another refiner filename they are its stem and content hash.
C5_RefinerFollowsLastSetData ==
    pc = "set_data" =>
        IF arg.a.refiner_model_name \in {"", "None"}
        THEN parser.refiner_model_name = "" /\ parser.refiner_model_hash = ""
        ELSE /\ parser.refiner_model_name = Stem(arg.a.refiner_model_name)
             /\ parser.refiner_model_hash =
                    arg.disk[PathJoin(path_checkpoints, arg.a.refiner_model_name)]

----------------------------------------------------------------------------
(* modules.util and modules.flags collaborators of the A1111 codec *)

\* what json.dumps(text, ensure_ascii=False) writes for the character c
json_escape_char(c) ==
    IF c = "\"" THEN "\\\""
    ELSE IF c = "\\" THEN "\\\\"
    ELSE IF c = "\n" THEN "\\n"
    ELSE IF c = "\t" THEN "\\t"
    ELSE IF c = "\r" THEN "\\r"
    ELSE c

\* the body of json.dumps(text, ensure_ascii=False) for a str, from index i
json_escape(text, i) ==
    Join("", [j \in 1..(Len(text) - i + 1) |-> json_escape_char(Char(text, i + j - 1))])

\* modules.util.quote
quote(text) ==
    IF Find(text, ",", 1) = 0 /\ Find(text, "\n", 1) = 0 /\ Find(text, ":", 1) = 0
    THEN text
    ELSE "\"" \o json_escape(text, 1) \o "\""

\* the decoded character of the escape \c
json_unescape_char(c) ==
    IF c = "n" THEN "\n" ELSE IF c = "t" THEN "\t" ELSE IF c = "r" THEN "\r" ELSE c

\* json.loads appends r.s to the characters head decoded before it
json_unescape_append(head, r) == IF r.ok THEN [ok |-> TRUE, s |-> head \o r.s] ELSE r

RECURSIVE json_unescape(_, _, _)
RECURSIVE json_unescape_chunk(_, _, _, _)
\* the decoder at index j, the first one from i on that is not a plain character
json_unescape_chunk(text, i, last, j) ==
    IF j >= last THEN [ok |-> TRUE, s |-> SubSeq(text, i, last - 1)]
    ELSE IF /\ Char(text, j) = "\\"
            /\ j + 1 < last
            /\ Char(text, j + 1) \in {"\"", "\\", "/", "n", "t", "r"}
    THEN json_unescape_append(SubSeq(text, i, j - 1) \o json_unescape_char(Char(text, j + 1)),
                              json_unescape(text, j + 2, last))
    ELSE [ok |-> FALSE, s |-> ""]

\* json.loads of the string literal text, from index i up to the closing quote at
\* index last: [ok, s]; ok is FALSE where json.loads raises
json_unescape(text, i, last) ==
    IF i > last THEN [ok |-> FALSE, s |-> ""]
    ELSE json_unescape_chunk(text, i, last,
             FirstIndex(i, last, LAMBDA j :
                 j = last \/ Char(text, j) \in {"\"", "\\", "\n", "\t", "\r"}))

\* the try/except of unquote: r is what json.loads(text) gives
unquote_loaded(text, r) == IF r.ok THEN r.s ELSE text

\* modules.util.unquote
unquote(text) ==
    IF Len(text) = 0 \/ Char(text, 1) # "\"" \/ Char(text, Len(text)) # "\""
    THEN text
    ELSE IF Len(text) < 2 THEN text
    ELSE unquote_loaded(text, json_unescape(text, 2, Len(text)))

\* modules.util.extract_styles_from_prompt with no style that matches
extract_styles_from_prompt(prompt, negative_prompt) ==
    [found_styles |-> "[]", prompt |-> prompt, negative_prompt |-> negative_prompt]

\* Performance[Steps(int(steps)).name].value: [ok, value]; ok is FALSE where it raises
performance_of_steps(steps) ==
    LET t == Strip(steps)
        n == StrToNat(t)
    IN  IF ~AllDigits(t) THEN [ok |-> FALSE, value |-> ""]
        ELSE IF n = 60 THEN [ok |-> TRUE, value |-> "Quality"]
        ELSE IF n = 30 THEN [ok |-> TRUE, value |-> "Speed"]
        ELSE IF n = 8 THEN [ok |-> TRUE, value |-> "Extreme Speed"]
        ELSE [ok |-> FALSE, value |-> ""]

----------------------------------------------------------------------------
(* The regular expressions re_param and re_imagesize *)

\* the class [\w \-/]
KeyChars == WordChars \cup {" ", "-", "/"}

\* the first index >= i of s outside [\w \-/]
KeyRunEnd(s, i) == RunEnd(s, i, KeyChars)

\* $ at index i: the end of s, or just before a newline that ends s
AtEnd(s, i) == i = Len(s) + 1 \/ (i = Len(s) /\ Char(s, i) = "\n")

RECURSIVE QuotedEnd(_, _)
RECURSIVE QuotedEndAt(_, _)
\* the scan at index j, the first one that holds a quote or a backslash
QuotedEndAt(s, j) ==
    IF j > Len(s) \/ Char(s, j) = "\"" THEN j
    ELSE IF j + 1 <= Len(s) /\ Char(s, j + 1) # "\n" THEN QuotedEnd(s, j + 2)
    ELSE j

\* (?:\\.|[^\\"])+ from index i, greedy: the first index it cannot consume
QuotedEnd(s, i) ==
    IF i > Len(s) THEN i
    ELSE QuotedEndAt(s, FirstIndex(i, Len(s) + 1, LAMBDA j :
                                      j > Len(s) \/ Char(s, j) \in {"\"", "\\"}))

NoMatch(p) == [ok |-> FALSE, k |-> "", v |-> "", end |-> p]

\* the value group and the closing (?:,|$) of re_param, the value starting at index
\* a: qe is where the quoted alternative stops, comma the next comma from a on
re_param_value(s, k, a, qe, comma) ==
    IF /\ a <= Len(s)
       /\ Char(s, a) = "\""
       /\ qe > a + 1
       /\ qe <= Len(s)
       /\ Char(s, qe) = "\""
       /\ (AtEnd(s, qe + 1) \/ Char(s, qe + 1) = ",")
    THEN [ok |-> TRUE, k |-> k, v |-> SubSeq(s, a, qe),
          end |-> IF qe + 1 <= Len(s) /\ Char(s, qe + 1) = "," THEN qe + 2 ELSE qe + 1]
    ELSE IF comma = 0
    THEN [ok |-> TRUE, k |-> k, v |-> SubSeq(s, a, Len(s)), end |-> Len(s) + 1]
    ELSE [ok |-> TRUE, k |-> k, v |-> SubSeq(s, a, comma - 1), end |-> comma + 1]

\* :\s* and the value, the colon expected at index r
re_param_colon(s, p, k, r, a) ==
    re_param_value(s, k, a, QuotedEnd(s, a + 1), Find(s, ",", a))

\* the key group (\w[\w \-/]+) from index q, r the first index after its run
re_param_key(s, p, q, r) ==
    IF /\ q <= Len(s)
       /\ Char(s, q) \in WordChars
       /\ r > q + 1
       /\ r <= Len(s)
       /\ Char(s, r) = ":"
    THEN re_param_colon(s, p, SubSeq(s, q, r - 1), r, SkipSpace(s, r + 1))
    ELSE NoMatch(p)

\* the leading \s* of re_param skipped: the key starts at index q
re_param_space(s, p, q) == re_param_key(s, p, q, KeyRunEnd(s, q + 1))

\* re_param.match(s, p - 1): [ok, k, v, end], end the index after the match
re_param_match(s, p) == re_param_space(s, p, SkipSpace(s, p))

RECURSIVE re_param_findall_from(_, _, _)
\* the matches of re_param in s from index p on, acc those found before
re_param_findall_from(s, p, acc) ==
    IF p > Len(s) \/ ~Evaluated(acc) THEN acc
    ELSE IF re_param_match(s, p).ok
    THEN re_param_findall_from(s, re_param_match(s, p).end,
             Append(acc, <<re_param_match(s, p).k, re_param_match(s, p).v>>))
    ELSE re_param_findall_from(s, p + 1, acc)

\* re_param.findall(s): the (key, value) groups of the successive matches
re_param_findall(s) == re_param_findall_from(s, 1, <<>>)

\* ^(\d+)x(\d+)$ on t, x the index of the first "x" of t (0 when none)
re_imagesize_at(t, x) ==
    IF x > 0 /\ AllDigits(SubSeq(t, 1, x - 1)) /\ AllDigits(SubSeq(t, x + 1, Len(t)))
    THEN [ok |-> TRUE, w |-> SubSeq(t, 1, x - 1), h |-> SubSeq(t, x + 1, Len(t))]
    ELSE [ok |-> FALSE, w |-> "", h |-> ""]

\* $ may match before a newline that ends v
re_imagesize_line(t) == re_imagesize_at(t, Find(t, "x", 1))

\* re_imagesize.match(v): [ok, w, h]
re_imagesize_match(v) ==
    re_imagesize_line(IF Len(v) > 0 /\ Char(v, Len(v)) = "\n"
                      THEN SubSeq(v, 1, Len(v) - 1) ELSE v)

----------------------------------------------------------------------------
(* A1111MetadataParser.parse_json *)

\* A1111MetadataParser.fooocus_to_a1111, in dict order: <<canonical key, display label>>
fooocus_to_a1111 ==
    << <<"negative_prompt", "Negative prompt">>,
       <<"styles", "Styles">>,
       <<"performance", "Performance">>,
       <<"steps", "Steps">>,
       <<"sampler", "Sampler">>,
       <<"guidance_scale", "CFG scale">>,
       <<"seed", "Seed">>,
       <<"resolution", "Size">>,
       <<"sharpness", "Sharpness">>,
       <<"adm_guidance", "ADM Guidance">>,
       <<"refiner_swap_method", "Refiner Swap Method">>,
       <<"adaptive_cfg", "Adaptive CFG">>,
       <<"overwrite_switch", "Overwrite Switch">>,
       <<"freeu", "FreeU">>,
       <<"base_model", "Model">>,
       <<"base_model_hash", "Model hash">>,
       <<"refiner_model", "Refiner">>,
       <<"refiner_model_hash", "Refiner hash">>,
       <<"lora_hashes", "Lora hashes">>,
       <<"lora_weights", "Lora weights">>,
       <<"created_by", "User">>,
       <<"version", "Version">> >>

\* self.fooocus_to_a1111[key]
Label(key) ==
    fooocus_to_a1111[CHOOSE i \in 1..Len(fooocus_to_a1111) : fooocus_to_a1111[i][1] = key][2]

\* list(values()).index(k) + 1, 0 where index raises ValueError
LabelIndex(k) ==
    IF \E i \in 1..Len(fooocus_to_a1111) : fooocus_to_a1111[i][2] = k
    THEN CHOOSE i \in 1..Len(fooocus_to_a1111) :
            /\ fooocus_to_a1111[i][2] = k
            /\ \A j \in 1..(i - 1) : fooocus_to_a1111[j][2] # k
    ELSE 0

\* len(re_param.findall(lastline)) < 3: the last line is prompt text, not parameters
is_prompt_line_no_pair(lastline) == Len(re_param_findall(lastline)) < 1

is_prompt_line(lastline) == Len(re_param_findall(lastline)) < 3

\* "Negative prompt:"
NegativeLabel == Label("negative_prompt") \o ":"

\* line[len("Negative prompt:"):].strip() for a stripped line that starts with the label
StripLabel(line) == Strip(SubSeq(line, Len(NegativeLabel) + 1, Len(line)))

\* prompt += ('' if prompt == '' else "\n") + line
AddLine(prompt, line) == prompt \o (IF prompt = "" THEN "" ELSE "\n") \o line

RECURSIVE prompt_loop_forgetting(_, _, _, _, _)
prompt_loop_forgetting(lines, i, prompt, negative_prompt, done_with_prompt) ==
    IF i > Len(lines) THEN [prompt |-> prompt, negative_prompt |-> negative_prompt]
    ELSE IF StartsWith(Strip(lines[i]), NegativeLabel)
    THEN prompt_loop_forgetting(lines, i + 1, prompt,
             AddLine(negative_prompt, StripLabel(Strip(lines[i]))), FALSE)
    ELSE prompt_loop_forgetting(lines, i + 1, AddLine(prompt, Strip(lines[i])),
             negative_prompt, FALSE)

RECURSIVE prompt_loop(_, _, _, _, _)
\* the loop "for line in lines" of parse_json, from index i
prompt_loop(lines, i, prompt, negative_prompt, done_with_prompt) ==
    IF i > Len(lines) THEN [prompt |-> prompt, negative_prompt |-> negative_prompt]
    ELSE IF StartsWith(Strip(lines[i]), NegativeLabel)
    THEN prompt_loop(lines, i + 1, prompt,
             AddLine(negative_prompt, StripLabel(Strip(lines[i]))), TRUE)
    ELSE IF done_with_prompt
    THEN prompt_loop(lines, i + 1, prompt,
             AddLine(negative_prompt, Strip(lines[i])), TRUE)
    ELSE prompt_loop(lines, i + 1, AddLine(prompt, Strip(lines[i])),
             negative_prompt, FALSE)

\* data[...] = v of the loop body: u is v unquoted, m the image-size match of u,
\* i the index of k among the labels
param_store(data, u, m, i) ==
    IF m.ok THEN Put(data, "resolution", "('" \o m.w \o "', '" \o m.h \o "')")
    ELSE IF i = 0 THEN data
    ELSE Put(data, fooocus_to_a1111[i][1], u)

param_unquoted(data, k, u) == param_store(data, u, re_imagesize_match(u), LabelIndex(k))

\* the body of "for k, v in re_param.findall(lastline)" for one pair; an exception
\* raised inside the try (v[0] of an empty v, index of an unknown label) leaves
\* data as it is
param_pair(data, k, v) ==
    IF Len(v) = 0 THEN data
    ELSE param_unquoted(data, k,
             IF Char(v, 1) = "\"" /\ Char(v, Len(v)) = "\"" THEN unquote(v) ELSE v)

RECURSIVE param_loop(_, _, _)
param_loop(data, pairs, i) ==
    IF i > Len(pairs) \/ ~Evaluated(data) THEN data
    ELSE param_loop(param_pair(data, pairs[i][1], pairs[i][2]), pairs, i + 1)

load_performance_of(data, pf) ==
    IF pf.ok THEN Put(data, "performance", pf.value) ELSE data

\* "try to load performance based on steps"
load_performance(data) ==
    IF "steps" \in DOMAIN data /\ "performance" \notin DOMAIN data
    THEN load_performance_of(data, performance_of_steps(data["steps"]))
    ELSE data

\* the first filename of filenames whose stem is name: its index, 0 when none
StemIndex(filenames, name) ==
    IF \E i \in 1..Len(filenames) : Stem(filenames[i]) = name
    THEN CHOOSE i \in 1..Len(filenames) :
            /\ Stem(filenames[i]) = name
            /\ \A j \in 1..(i - 1) : Stem(filenames[j]) # name
    ELSE 0

resolve_base_model_at(data, models, i) ==
    IF i # 0 THEN Put(data, "base_model", models[i]) ELSE data

\* "if 'base_model' in data"
resolve_base_model(data, models) ==
    IF "base_model" \in DOMAIN data
    THEN resolve_base_model_at(data, models, StemIndex(models, data["base_model"]))
    ELSE data

\* list.remove(x): [ok, list]; ok is FALSE where it raises ValueError
ListRemove(list, x) ==
    IF \E i \in 1..Len(list) : list[i] = x
    THEN LET i == CHOOSE k \in 1..Len(list) : list[k] = x /\ \A j \in 1..(k - 1) : list[j] # x
         IN  [ok |-> TRUE, list |-> SubSeq(list, 1, i - 1) \o SubSeq(list, i + 1, Len(list))]
    ELSE [ok |-> FALSE, list |-> list]

\* the inner "for filename in lora_filenames" for the entry lora_name: hash: weight
lora_match(data, parts, filenames, li, fi) ==
    IF fi # 0
    THEN Put(data, "lora_combined_" \o NatToStr(li), filenames[fi] \o " : " \o parts[3])
    ELSE data

RECURSIVE lora_loop(_, _, _, _)
\* "for li, lora in enumerate(...)", from index li: [raised, data]
lora_loop(data, entries, filenames, li) ==
    IF li > Len(entries) THEN [raised |-> "", data |-> data]
    ELSE IF Len(Split(entries[li], ": ")) # 3 THEN [raised |-> "ValueError", data |-> data]
    ELSE lora_loop(lora_match(data, Split(entries[li], ": "), filenames, li,
                              StemIndex(filenames, Split(entries[li], ": ")[1])),
                   entries, filenames, li + 1)

\* the LoRA loop after lora_filenames.remove(...): rm is the outcome of the remove
resolve_loras_in(data, rm) ==
    IF ~rm.ok THEN [raised |-> "ValueError", data |-> data]
    ELSE lora_loop(data, Split(data["lora_hashes"], ", "), rm.list, 1)

\* "if 'lora_hashes' in data": [raised, data]
resolve_loras(data, loras) ==
    IF "lora_hashes" \in DOMAIN data
    THEN resolve_loras_in(data, ListRemove(loras, sdxl_lcm_lora))
    ELSE [raised |-> "", data |-> data]

\* parse_json from "data = {...}" on: st is what extract_styles_from_prompt returned
parse_json_data(st, lastline, models, loras) ==
    resolve_loras(
        resolve_base_model(
            load_performance(
                param_loop([k \in {"prompt", "negative_prompt", "styles"} |->
                               IF k = "prompt" THEN st.prompt
                               ELSE IF k = "negative_prompt" THEN st.negative_prompt
                               ELSE st.found_styles],
                           re_param_findall(lastline), 1)),
            models),
        loras)

\* parse_json after the loop over lines: pr holds prompt and negative_prompt
parse_json_prompts(pr, lastline, models, loras) ==
    parse_json_data(extract_styles_from_prompt(pr.prompt, pr.negative_prompt),
                    lastline, models, loras)

\* parse_json after the test of the last line: rewind says it is prompt text
parse_json_split(all, rewind, models, loras) ==
    parse_json_prompts(
        prompt_loop(IF rewind THEN all ELSE SubSeq(all, 1, Len(all) - 1), 1, "", "", FALSE),
        IF rewind THEN "" ELSE all[Len(all)],
        models, loras)

\* parse_json after "*lines, lastline = metadata.strip().split('\n')"
parse_json_lines(all, models, loras) ==
    parse_json_split(all, is_prompt_line(all[Len(all)]), models, loras)

\* A1111MetadataParser.parse_json(metadata) under the configured filename lists:
\* [raised, data]
A1111_parse_json(metadata, models, loras) ==
    parse_json_lines(Split(Strip(metadata), "\n"), models, loras)

----------------------------------------------------------------------------
(* SpecA1111: A1111MetadataParser.parse_json applied to one text.  Init     *)
(* draws the configured filename lists and the text; the action parses it. *)

\* the most lines that precede the last line of a text
MaxPromptLines == 2

PromptLineChoices ==
    {"cat", "", "  bird ", "Negative prompt: dog", "Negative prompt:",
     "Steps: 20, Sampler: Euler, Seed: 1"}

LastLineChoices ==
    {"Steps: 20, Sampler: Euler, Seed: 1",
     "Steps: 20, Sampler: Euler",
     "fish",
     "Negative prompt: dog",
     "Steps: 30, Size: 1024x768, Model: juggernaut, Lora hashes: \"styleA: abcd1234: 0.8\"",
     "Steps: 60, Seed: 1, Lora hashes: styleA: abcd1234: 0.8",
     "Steps: 30, Bogus: 1, Sampler: , Seed: 7, Model: unknown",
     "Steps: 30, Seed: 7, Lora hashes: broken",
     "Steps: 8, Seed: 1, Lora hashes: \"nope: ff: 0.5, styleB: aa: 1.0\"",
     "Steps: 30, Seed: 1, Lora hashes: \"sdxl_lcm_lora: aa: 1.0, styleA: bb: 0.3\"",
     "Seed: 1, Sampler: \"a, b\", Lora hashes: \"styleA: bb\""}

A1111Texts ==
    {Join("\n", Append(pre, last)) :
        pre \in SeqsUpTo(PromptLineChoices, MaxPromptLines), last \in LastLineChoices}

LoraListChoices ==
    {<<sdxl_lcm_lora, "styleA.safetensors", "styleB.safetensors">>,
     <<"styleA.safetensors", "styleB.safetensors">>,
     <<"extra/styleA.safetensors", sdxl_lcm_lora, "styleA.safetensors">>}

ModelListChoices == {<<"sdxl/juggernaut.safetensors", "juggernaut.ckpt">>, <<>>}

InitA1111 ==
    /\ model_filenames \in ModelListChoices
    /\ lora_filenames \in LoraListChoices
    /\ metadata_created_by = ""
    /\ hash_cache = EmptyDict
    /\ sha256_calls = EmptyDict
    /\ parser = NewParser("a1111")
    /\ pc = "start"
    /\ arg \in A1111Texts
    /\ ret = EmptyDict
    /\ raised = ""

ParseJsonA1111 ==
    /\ pc = "start"
    /\ \E r \in {A1111_parse_json(arg, model_filenames, lora_filenames)} :
           /\ raised' = r.raised
           /\ ret' = IF r.raised = "" THEN r.data ELSE EmptyDict
    /\ pc' = "parse_json"
    /\ UNCHANGED <<config, hash_cache, sha256_calls, parser, arg>>

NextA1111 == ParseJsonA1111

SpecA1111 == InitA1111 /\ [][NextA1111]_vars

----------------------------------------------------------------------------
(* Properties of A1111 parse_json, checked under SpecA1111 *)

\* the lines of the text parsed, the last of them, and the pairs re_param finds in it
InputLines == Split(Strip(arg), "\n")

LastInputLine == InputLines[Len(InputLines)]

PairCount == Len(re_param_findall(LastInputLine))

PrecedingLines == SubSeq(InputLines, 1, Len(InputLines) - 1)

\* the lines that are prompt text
PromptInputLines == IF PairCount < 3 THEN InputLines ELSE PrecedingLines

BeginsNegative(l) == StartsWith(Strip(l), "Negative prompt:")

\* a prompt line as it enters a prompt: stripped, and without a leading label
Cleaned(l) ==
    IF BeginsNegative(l) THEN Strip(SubSeq(Strip(l), 17, Len(Strip(l)))) ELSE Strip(l)

\* the index of the first line that begins with the label, Len(lines) + 1 when none
FirstNegative(lines) ==
    IF \E i \in 1..Len(lines) : BeginsNegative(lines[i])
    THEN CHOOSE i \in 1..Len(lines) :
            BeginsNegative(lines[i]) /\ \A j \in 1..(i - 1) : ~BeginsNegative(lines[j])
    ELSE Len(lines) + 1

RECURSIVE DropLeadingEmpty(_)
DropLeadingEmpty(lines) ==
    IF Len(lines) > 0 /\ lines[1] = "" THEN DropLeadingEmpty(Tail(lines)) ELSE lines

\* the prompt texts the split of lines gives: the lines before the first label line,
\* and that line and the later ones, cleaned, joined with newlines once non-empty
ExpectedPrompt(lines) ==
    Join("\n", DropLeadingEmpty(
        [i \in 1..(FirstNegative(lines) - 1) |-> Cleaned(lines[i])]))

ExpectedNegative(lines) ==
    Join("\n", DropLeadingEmpty(
        [i \in 1..(Len(lines) - FirstNegative(lines) + 1) |->
            Cleaned(lines[FirstNegative(lines) + i - 1])]))

\* p is l, or ends with a newline and l
EndsWithLine(p, l) ==
    p = l \/ (Len(p) > Len(l) /\ SubSeq(p, Len(p) - Len(l), Len(p)) = "\n" \o l)

ParameterKeysAbsent == DOMAIN ret = {"prompt", "negative_prompt", "styles"}

C7_Example ==
    arg = "cat\nNegative prompt: dog\nSteps: 20, Sampler: Euler, Seed: 1" =>
        ret["prompt"] = "cat" /\ ret["negative_prompt"] = "dog" /\ ret["steps"] = "20"

InputPairs == IF PairCount < 3 THEN <<>> ELSE re_param_findall(LastInputLine)

ReservedLoraKnown == \E i \in 1..Len(lora_filenames) : lora_filenames[i] = sdxl_lcm_lora

\* C4: parse_json never raises on a malformed field; it skips the field and keeps
\* every well-formed field of the line (stated for configurations whose LoRA list
\* holds the reserved LoRA).
C4_MalformedFieldSkipped ==
    (pc = "parse_json" /\ ReservedLoraKnown) =>
        /\ raised = ""
        /\ \A i \in 1..Len(InputPairs) :
              (LabelIndex(InputPairs[i][1]) # 0 /\ InputPairs[i][2] # "") =>
                  fooocus_to_a1111[LabelIndex(InputPairs[i][1])][1] \in DOMAIN ret

\* the entries of the text's 'Lora hashes' value, <<>> when it has none
InputLoraEntries ==
    IF \E i \in 1..Len(InputPairs) : InputPairs[i][1] = "Lora hashes" /\ InputPairs[i][2] # ""
    THEN Split(unquote(InputPairs[CHOOSE i \in 1..Len(InputPairs) :
                                     InputPairs[i][1] = "Lora hashes"][2]), ", ")
    ELSE <<>>

\* the known LoRA filenames other than the reserved one
GeneralLoras == SelectSeq(lora_filenames, LAMBDA f : f # sdxl_lcm_lora)

\* C9: for every well-formed entry name: hash: weight at position i, the result has
\* lora_combined_<i> = '<first filename with that stem> : <weight>' when a known
\* LoRA other than the reserved one has that stem, and no such key otherwise,
\* whatever the known LoRA list.
C9_LoraResolution ==
    (/\ pc = "parse_json"
     /\ Len(InputLoraEntries) > 0
     /\ \A i \in 1..Len(InputLoraEntries) : Len(Split(InputLoraEntries[i], ": ")) = 3) =>
        /\ raised = ""
        /\ \A i \in 1..Len(InputLoraEntries) :
              LET parts == Split(InputLoraEntries[i], ": ")
                  fi    == StemIndex(GeneralLoras, parts[1])
                  key   == "lora_combined_" \o NatToStr(i)
              IN  IF fi # 0
                  THEN key \in DOMAIN ret /\ ret[key] = GeneralLoras[fi] \o " : " \o parts[3]
                  ELSE key \notin DOMAIN ret

----------------------------------------------------------------------------
(* A1111MetadataParser.parse_string *)

\* {k: v for _, k, v in metadata}: a key keeps the value of its last entry
entries_dict(metadata) ==
    [k \in {metadata[i][2] : i \in 1..Len(metadata)} |->
        metadata[LastIndex(1, Len(metadata), LAMBDA i : metadata[i][2] = k)][3]]

\* eval of the two parts of a resolution text "(W, H)": [ok, width, height]; the
\* ints are kept as the digits str() gives them
eval_resolution_parts(parts) ==
    IF Len(parts) = 2 /\ AllDigits(parts[1]) /\ AllDigits(parts[2])
    THEN [ok |-> TRUE, width |-> NatToStr(StrToNat(parts[1])),
          height |-> NatToStr(StrToNat(parts[2]))]
    ELSE [ok |-> FALSE, width |-> "", height |-> ""]

\* width, height = eval(data['resolution']) for the text of a pair of ints
eval_resolution(text) ==
    IF Len(text) >= 2 /\ Char(text, 1) = "(" /\ Char(text, Len(text)) = ")"
    THEN eval_resolution_parts(Split(SubSeq(text, 2, Len(text) - 1), ", "))
    ELSE [ok |-> FALSE, width |-> "", height |-> ""]

\* the keys parse_string reads with data[...]
RequiredKeys ==
    {"resolution", "performance", "sampler", "seed", "guidance_scale", "sharpness",
     "adm_guidance", "base_model", "version"}

OptionalKeys == <<"adaptive_cfg", "overwrite_switch", "refiner_swap_method", "freeu">>

RECURSIVE lora_hashes_list(_, _)
\* the list lora_hashes built from self.loras, from index i
lora_hashes_list(loras, i) ==
    IF i > Len(loras) THEN <<>>
    ELSE <<loras[i][1] \o ": " \o loras[i][3] \o ": " \o loras[i][2]>>
         \o lora_hashes_list(loras, i + 1)

RECURSIVE optional_params(_, _, _)
\* "for key in ['adaptive_cfg', ...]": the optional keys of data copied over
optional_params(params, data, i) ==
    IF i > Len(OptionalKeys) THEN params
    ELSE IF OptionalKeys[i] \in DOMAIN data
    THEN optional_params(Put(params, Label(OptionalKeys[i]), data[OptionalKeys[i]]), data, i + 1)
    ELSE optional_params(params, data, i + 1)

\* the first dict generation_params
base_params(self, data, size) ==
    [l \in {Label("performance"), Label("steps"), Label("sampler"), Label("seed"),
            Label("resolution"), Label("guidance_scale"), Label("sharpness"),
            Label("adm_guidance"), Label("base_model"), Label("base_model_hash")} |->
        IF l = Label("performance") THEN data["performance"]
        ELSE IF l = Label("steps") THEN NatToStr(self.steps)
        ELSE IF l = Label("sampler") THEN data["sampler"]
        ELSE IF l = Label("seed") THEN data["seed"]
        ELSE IF l = Label("resolution") THEN size.width \o "x" \o size.height
        ELSE IF l = Label("guidance_scale") THEN data["guidance_scale"]
        ELSE IF l = Label("sharpness") THEN data["sharpness"]
        ELSE IF l = Label("adm_guidance") THEN data["adm_guidance"]
        ELSE IF l = Label("base_model") THEN Stem(data["base_model"])
        ELSE self.base_model_hash]

\* generation_params |= {refiner ...} when a refiner is set
refiner_params(params, self) ==
    IF self.refiner_model_name \notin {"", "None"}
    THEN Put(Put(params, Label("refiner_model"), self.refiner_model_name),
             Label("refiner_model_hash"), self.refiner_model_hash)
    ELSE params

\* generation_params |= {lora_hashes, version}
lora_version_params(params, self, data) ==
    Put(Put(params, Label("lora_hashes"), Join(", ", lora_hashes_list(self.loras, 1))),
        Label("version"), data["version"])

\* the created_by entry
created_by_params(params, created_by) ==
    IF created_by # "" THEN Put(params, Label("created_by"), created_by) ELSE params

\* generation_params as parse_string completes it
generation_params(self, data, size, created_by) ==
    created_by_params(
        lora_version_params(
            optional_params(refiner_params(base_params(self, data, size), self), data, 1),
            self, data),
        created_by)

\* the keys of S in the order of rank, the number of keys below each
SortedByRank(S, rank) ==
    Computed([i \in 1..Cardinality(S) |-> CHOOSE x \in S : rank[x] = i - 1])

\* sorted(keys) for a set of str
SortedKeys(S) ==
    SortedByRank(S, Computed([x \in S |-> Cardinality({y \in S : StrLess(y, x)})]))

\* k if k == v else f'{k}: {quote(v)}'
param_text(k, v) == IF k = v THEN k ELSE k \o ": " \o quote(v)

\* generation_params_text over the sorted labels
params_text_of(params, labels) ==
    Join(", ", [i \in 1..Len(labels) |-> param_text(labels[i], params[labels[i]])])

generation_params_text(params) == params_text_of(params, SortedKeys(DOMAIN params))

\* the text parse_string returns
prompt_text(positive, negative, params) ==
    Strip(positive
          \o (IF negative # "" THEN "\n" \o Label("negative_prompt") \o ": " \o negative ELSE "")
          \o "\n" \o params)

\* parse_string once width and height are known
parse_string_sized(self, data, size, created_by) ==
    IF ~size.ok THEN [raised |-> "SyntaxError", text |-> ""]
    ELSE IF ~(RequiredKeys \subseteq DOMAIN data) THEN [raised |-> "KeyError", text |-> ""]
    ELSE [raised |-> "",
          text |-> prompt_text(Join(", ", self.full_prompt),
                               Join(", ", self.full_negative_prompt),
                               generation_params_text(
                                   generation_params(self, data, size, created_by)))]

parse_string_data(self, data, created_by) ==
    IF "resolution" \notin DOMAIN data THEN [raised |-> "KeyError", text |-> ""]
    ELSE parse_string_sized(self, data, eval_resolution(data["resolution"]), created_by)

\* A1111MetadataParser.parse_string(metadata): [raised, text]
A1111_parse_string(self, metadata, created_by) ==
    parse_string_data(self, entries_dict(metadata), created_by)

----------------------------------------------------------------------------
(* SpecRoundTrip: one A1111 instance is populated by set_data, serializes an *)
(* entry list with parse_string, and the text is parsed back by parse_json. *)

RoundTripEntries ==
    {<< <<"Performance", "performance", "Speed">>,
        <<"Sampler", "sampler", "dpmpp_2m_sde_gpu">>,
        <<"Seed", "seed", "12345">>,
        <<"Resolution", "resolution", "(1024, 768)">>,
        <<"Guidance Scale", "guidance_scale", "4.0">>,
        <<"Sharpness", "sharpness", "2.0">>,
        <<"ADM Guidance", "adm_guidance", "(1.5, 0.8, 0.3)">>,
        <<"Base Model", "base_model", "juggernaut.safetensors">>,
        <<"Version", "version", "Fooocus v2.1.865">> >>,
     << <<"Performance", "performance", "Quality">>,
        <<"Sampler", "sampler", "euler">>,
        <<"Seed", "seed", "7">>,
        <<"Resolution", "resolution", "(512, 512)">>,
        <<"Guidance Scale", "guidance_scale", "7">>,
        <<"Sharpness", "sharpness", "2.0">>,
        <<"ADM Guidance", "adm_guidance", "(1.5, 0.8, 0.3)">>,
        <<"Base Model", "base_model", "sub/realistic.v2.ckpt">>,
        <<"FreeU", "freeu", "(1.01, 1.02, 0.99, 0.95)">>,
        <<"Version", "version", "v2">> >>}

RoundTripArgs ==
    [full_prompt : {<<"cat">>, <<"a cat", "on a mat">>},
     full_negative_prompt : {<<>>, <<"dog", "blurry">>},
     steps : {30, 20},
     base_model_name : BaseModelChoices,
     refiner_model_name : {"None", "refiner.safetensors"},
     loras : SeqsUpTo(LoraChoices \cup {<<"styleB.safetensors", "0.5">>}, MaxLoras)]

RoundTripDisk ==
    [p \in HashedPaths \cup {PathJoin(path_loras, "styleB.safetensors")} |->
        IF p \in CheckpointPaths THEN "d1" ELSE "d2"]

InitRoundTrip ==
    /\ model_filenames \in ModelListChoices
    /\ lora_filenames \in LoraListChoices
    /\ metadata_created_by \in {"", "me"}
    /\ hash_cache = EmptyDict
    /\ sha256_calls = EmptyDict
    /\ parser = NewParser("a1111")
    /\ pc = "start"
    /\ arg \in [disk : {RoundTripDisk}, entries : RoundTripEntries]
    /\ ret = ""
    /\ raised = ""

RoundTripSetData ==
    /\ pc = "start"
    /\ \E a \in RoundTripArgs :
        \E r \in {set_data(parser, hash_cache, sha256_calls, arg.disk, a)} :
            /\ parser' = r.self
            /\ hash_cache' = r.cache
            /\ sha256_calls' = r.calls
    /\ pc' = "populated"
    /\ UNCHANGED <<config, arg, ret, raised>>

RoundTripParseString ==
    /\ pc = "populated"
    /\ \E r \in {A1111_parse_string(parser, arg.entries, metadata_created_by)} :
            /\ raised' = r.raised
            /\ ret' = r.text
            /\ pc' = IF r.raised = "" THEN "serialized" ELSE "failed"
    /\ UNCHANGED <<config, hash_cache, sha256_calls, parser, arg>>

RoundTripParseJson ==
    /\ pc = "serialized"
    /\ \E r \in {A1111_parse_json(ret, model_filenames, lora_filenames)} :
            /\ raised' = r.raised
            /\ ret' = IF r.raised = "" THEN r.data ELSE EmptyDict
    /\ pc' = "round_trip"
    /\ UNCHANGED <<config, hash_cache, sha256_calls, parser, arg>>

NextRoundTrip == RoundTripSetData \/ RoundTripParseString \/ RoundTripParseJson

SpecRoundTrip == InitRoundTrip /\ [][NextRoundTrip]_vars

\* the value the entry list carries for a canonical key
EntryValue(entries, key) ==
    entries[CHOOSE i \in 1..Len(entries) : entries[i][2] = key][3]

\* the 1-based positions of the ParserState LoRAs whose stem is a known LoRA filename
KnownLoraPositions ==
    {i \in 1..Len(parser.loras) :
        \E j \in 1..Len(lora_filenames) : Stem(lora_filenames[j]) = parser.loras[i][1]}

LoraCombinedKey(i) == "lora_combined_" \o NatToStr(i)

RECURSIVE DigitRuns(_, _, _, _)
\* the maximal runs of digits in text from index i on: the width and height a
\* resolution text names, whichever way the pair is written
DigitRuns(text, i, run, acc) ==
    IF i > Len(text) THEN (IF run = "" THEN acc ELSE Append(acc, run))
    ELSE IF Char(text, i) \in Digits THEN DigitRuns(text, i + 1, run \o Char(text, i), acc)
    ELSE DigitRuns(text, i + 1, "", IF run = "" THEN acc ELSE Append(acc, run))

SameResolution(a, b) == DigitRuns(a, 1, "", <<>>) = DigitRuns(b, 1, "", <<>>)

\* C2: parse_json(parse_string(entries)) on an instance populated by set_data
\* returns a mapping that holds steps, sampler, seed, resolution, guidance_scale
\* and base_model_hash as serialized, a base_model with the serialized stem, the
\* serialized prompt texts, and one lora_combined_<i> for each ParserState LoRA
\* whose stem is a known LoRA filename.  The resolution is compared as a width
\* and a height, not as text.
C2_RoundTrip ==
    pc = "round_trip" =>
        /\ raised = ""
        /\ {"steps", "sampler", "seed", "resolution", "guidance_scale", "base_model_hash",
            "base_model", "prompt", "negative_prompt"} \subseteq DOMAIN ret
        /\ ret["steps"] = NatToStr(parser.steps)
        /\ ret["sampler"] = EntryValue(arg.entries, "sampler")
        /\ ret["seed"] = EntryValue(arg.entries, "seed")
        /\ SameResolution(ret["resolution"], EntryValue(arg.entries, "resolution"))
        /\ ret["guidance_scale"] = EntryValue(arg.entries, "guidance_scale")
        /\ ret["base_model_hash"] = parser.base_model_hash
        /\ Stem(ret["base_model"]) = Stem(EntryValue(arg.entries, "base_model"))
        /\ ret["prompt"] = Join(", ", parser.full_prompt)
        /\ ret["negative_prompt"] = Join(", ", parser.full_negative_prompt)
        /\ \A i \in KnownLoraPositions : LoraCombinedKey(i) \in DOMAIN ret

----------------------------------------------------------------------------
(* FooocusMetadataParser.  A mapping is the sequence of its <<key, value>> *)
(* items in dict order; its values and the values json.dumps renders are   *)
(* tagged with their Python type.                                          *)

PyStr(s) == [type |-> "str", value |-> s]

PyInt(n) == [type |-> "int", value |-> n]

PyList(items) == [type |-> "list", value |-> items]

PyNone == [type |-> "NoneType", value |-> ""]

\* key.startswith('lora_combined_')
IsLoraCombined(key) == StartsWith(key, "lora_combined_")

\* "name, weight = value.split(' : ')" succeeded with these parts, filename at hand
replace_lora(parts, filename) ==
    IF Len(parts) # 2 THEN [raised |-> "ValueError", found |-> FALSE, value |-> PyNone]
    ELSE IF parts[1] = Stem(filename)
    THEN [raised |-> "", found |-> TRUE, value |-> PyStr(filename \o " : " \o parts[2])]
    ELSE [raised |-> "", found |-> FALSE, value |-> PyNone]

\* the body of "for filename in filenames" for one filename: [raised, found, value]
replace_with(key, value, filename) ==
    IF IsLoraCombined(key)
    THEN IF value.type # "str" THEN [raised |-> "AttributeError", found |-> FALSE, value |-> PyNone]
         ELSE replace_lora(Split(value.value, " : "), filename)
    ELSE IF value.type = "str" /\ value.value = Stem(filename)
    THEN [raised |-> "", found |-> TRUE, value |-> PyStr(filename)]
    ELSE [raised |-> "", found |-> FALSE, value |-> PyNone]

RECURSIVE replace_value_from(_, _, _, _)
replace_value_step(key, value, filenames, fi, r) ==
    IF r.raised # "" \/ r.found THEN [raised |-> r.raised, value |-> r.value]
    ELSE replace_value_from(key, value, filenames, fi + 1)

\* the loop of replace_value_with_filename from index fi; falling off its end
\* returns None
replace_value_from(key, value, filenames, fi) ==
    IF fi > Len(filenames) THEN [raised |-> "", value |-> PyNone]
    ELSE replace_value_step(key, value, filenames, fi, replace_with(key, value, filenames[fi]))

\* FooocusMetadataParser.replace_value_with_filename: [raised, value]
replace_value_with_filename(key, value, filenames) ==
    replace_value_from(key, value, filenames, 1)

\* value in ['', 'None']
IsBlank(value) == value.type = "str" /\ value.value \in {"", "None"}

RECURSIVE Fooocus_parse_json_loop(_, _, _, _)
\* metadata[key] = r, or the exception of the call that was to give r
Fooocus_parse_json_store(metadata, models, loras, i, r) ==
    IF r.raised # "" THEN [raised |-> r.raised, metadata |-> metadata]
    ELSE Fooocus_parse_json_loop([metadata EXCEPT ![i] = <<metadata[i][1], r.value>>],
                                 models, loras, i + 1)

\* "for key, value in metadata.items()" from item i on, assigning into metadata:
\* [raised, metadata], metadata the caller's mapping as the call leaves it
Fooocus_parse_json_loop(metadata, models, loras, i) ==
    IF i > Len(metadata) THEN [raised |-> "", metadata |-> metadata]
    ELSE IF IsBlank(metadata[i][2]) THEN Fooocus_parse_json_loop(metadata, models, loras, i + 1)
    ELSE IF metadata[i][1] \in {"base_model", "refiner_model"}
    THEN Fooocus_parse_json_store(metadata, models, loras, i,
             replace_value_with_filename(metadata[i][1], metadata[i][2], models))
    ELSE IF IsLoraCombined(metadata[i][1])
    THEN Fooocus_parse_json_store(metadata, models, loras, i,
             replace_value_with_filename(metadata[i][1], metadata[i][2], loras))
    ELSE Fooocus_parse_json_loop(metadata, models, loras, i + 1)

\* lora_filenames.remove(...) done: removed is its outcome
Fooocus_parse_json_removed(metadata, models, removed) ==
    IF ~removed.ok THEN [raised |-> "ValueError", metadata |-> metadata]
    ELSE Fooocus_parse_json_loop(metadata, models, removed.list, 1)

\* FooocusMetadataParser.parse_json(metadata): the mapping returned is the object
\* passed in
Fooocus_parse_json(metadata, models, loras) ==
    Fooocus_parse_json_removed(metadata, models, ListRemove(loras, sdxl_lcm_lora))

RECURSIVE json_dumps(_)
\* json.dumps(v) for a tagged value; a dict is the sequence of its items
json_dumps(v) ==
    IF v.type = "str" THEN "\"" \o json_escape(v.value, 1) \o "\""
    ELSE IF v.type = "int" THEN NatToStr(v.value)
    ELSE IF v.type = "NoneType" THEN "null"
    ELSE IF v.type = "list"
    THEN "[" \o Join(", ", [i \in 1..Len(v.value) |-> json_dumps(v.value[i])]) \o "]"
    ELSE "{" \o Join(", ", [i \in 1..Len(v.value) |->
                                "\"" \o json_escape(v.value[i][1], 1) \o "\": "
                                \o json_dumps(v.value[i][2])]) \o "}"

\* the (name, weight, hash) tuples of self.loras as json.dumps sees them
loras_value(loras) ==
    PyList([i \in 1..Len(loras) |->
               PyList(<<PyStr(loras[i][1]), PyStr(loras[i][2]), PyStr(loras[i][3])>>)])

\* a list of str
strings_value(list) == PyList([i \in 1..Len(list) |-> PyStr(list[i])])

\* res = {k: v for _, k, v in metadata}: a key keeps the value of its last entry
tagged_entries_dict(metadata) ==
    [k \in {metadata[i][2] : i \in 1..Len(metadata)} |->
        PyStr(metadata[LastIndex(1, Len(metadata), LAMBDA i : metadata[i][2] = k)][3])]

\* res['refiner_model'], res['refiner_model_hash']
Fooocus_refiner(res, self) ==
    IF self.refiner_model_name \notin {"", "None"}
    THEN Put(Put(res, "refiner_model", PyStr(self.refiner_model_name)),
             "refiner_model_hash", PyStr(self.refiner_model_hash))
    ELSE res

\* res['created_by']
Fooocus_created_by(res, created_by) ==
    IF created_by # "" THEN Put(res, "created_by", PyStr(created_by)) ELSE res

\* the assignments into res
Fooocus_res(res, self, created_by) ==
    Fooocus_created_by(
        Put(Fooocus_refiner(
                Put(Put(Put(Put(Put(res,
                    "full_prompt", strings_value(self.full_prompt)),
                    "full_negative_prompt", strings_value(self.full_negative_prompt)),
                    "steps", PyInt(self.steps)),
                    "base_model", PyStr(self.base_model_name)),
                    "base_model_hash", PyStr(self.base_model_hash)),
                self),
            "loras", loras_value(self.loras)),
        created_by)

\* dict(sorted(res.items())) as the sequence of its items
sorted_items(res, keys) ==
    [type |-> "dict", value |-> [i \in 1..Len(keys) |-> <<keys[i], res[keys[i]]>>]]

\* json.dumps(dict(sorted(res.items())))
dumps_sorted(res) == json_dumps(sorted_items(res, SortedKeys(DOMAIN res)))

RECURSIVE Fooocus_parse_string_loop(_, _)
\* the lora_combined_ entry at index li rewritten from the parts of its value
Fooocus_strip_folder(metadata, li, parts) ==
    IF Len(parts) # 2 THEN [raised |-> "ValueError", metadata |-> metadata]
    ELSE Fooocus_parse_string_loop(
             [metadata EXCEPT ![li] = <<metadata[li][1], metadata[li][2],
                                        Stem(parts[1]) \o " : " \o parts[2]>>],
             li + 1)

\* "for li, (label, key, value) in enumerate(metadata)", assigning into metadata
Fooocus_parse_string_loop(metadata, li) ==
    IF li > Len(metadata) THEN [raised |-> "", metadata |-> metadata]
    ELSE IF IsLoraCombined(metadata[li][2])
    THEN Fooocus_strip_folder(metadata, li, Split(metadata[li][3], " : "))
    ELSE Fooocus_parse_string_loop(metadata, li + 1)

\* the rest of parse_string once the loop is over: m is its outcome
Fooocus_parse_string_dumps(self, m, created_by) ==
    IF m.raised # "" THEN [raised |-> m.raised, metadata |-> m.metadata, text |-> ""]
    ELSE [raised |-> "", metadata |-> m.metadata,
          text |-> dumps_sorted(Fooocus_res(tagged_entries_dict(m.metadata),
                                            self, created_by))]

\* FooocusMetadataParser.parse_string(metadata): [raised, metadata, text], metadata
\* the caller's entry list as the call leaves it
Fooocus_parse_string(self, metadata, created_by) ==
    Fooocus_parse_string_dumps(self, Fooocus_parse_string_loop(metadata, 1), created_by)

----------------------------------------------------------------------------
(* SpecFooocus: a caller holds a mapping and an entry list; it hands the   *)
(* mapping to parse_json, or populates the instance with set_data and hands *)
(* the entry list to parse_string.  arg.metadata and arg.entries are the   *)
(* caller's objects, arg.passed the copies it took before the calls.       *)

FooocusMetadataChoices ==
    {<< <<"prompt", PyStr("cat")>>, <<"base_model", b>>, <<"refiner_model", PyStr("None")>>,
        <<"lora_combined_1", l>> >> :
        b \in {PyStr("juggernaut"), PyStr("unknown"), PyNone},
        l \in {PyStr("styleA : 0.8"), PyStr("nope : 0.5"), PyStr("broken")}}

FooocusEntryChoices ==
    {<< <<"Prompt", "prompt", "cat">>,
        <<"LoRA 1", "lora_combined_1", "sub/styleA.safetensors : 0.8">>,
        <<"Seed", "seed", "7">> >>,
     << <<"LoRA 1", "lora_combined_1", "styleA : 0.8">>,
        <<"LoRA 2", "lora_combined_2", "styleB.safetensors : 0.5">> >>,
     << <<"LoRA 1", "lora_combined_1", "styleB.safetensors : 0.5">>,
        <<"LoRA 2", "lora_combined_2", "broken">> >>}

FooocusSetDataArgs ==
    [full_prompt : {<<"cat">>},
     full_negative_prompt : {<<>>, <<"dog", "blurry">>},
     steps : {30},
     base_model_name : {"juggernaut.safetensors"},
     refiner_model_name : {"None", "refiner.safetensors"},
     loras : SeqsUpTo({<<"styleA.safetensors", "0.8">>}, MaxLoras)]

InitFooocus ==
    /\ model_filenames \in ModelListChoices
    /\ lora_filenames \in LoraListChoices
    /\ metadata_created_by \in {"", "me"}
    /\ hash_cache = EmptyDict
    /\ sha256_calls = EmptyDict
    /\ parser = NewParser("fooocus")
    /\ pc = "start"
    /\ \E m \in FooocusMetadataChoices, e \in FooocusEntryChoices :
           arg = [disk |-> RoundTripDisk, metadata |-> m, entries |-> e,
                  passed |-> [metadata |-> m, entries |-> e]]
    /\ ret = ""
    /\ raised = ""

FooocusParseJson ==
    /\ pc = "start"
    /\ \E r \in {Fooocus_parse_json(arg.metadata, model_filenames, lora_filenames)} :
           /\ raised' = r.raised
           /\ arg' = [arg EXCEPT !.metadata = r.metadata]
           /\ ret' = IF r.raised = "" THEN r.metadata ELSE <<>>
    /\ pc' = "parse_json"
    /\ UNCHANGED <<config, hash_cache, sha256_calls, parser>>

FooocusSetData ==
    /\ pc = "start"
    /\ \E a \in FooocusSetDataArgs :
        \E r \in {set_data(parser, hash_cache, sha256_calls, arg.disk, a)} :
            /\ parser' = r.self
            /\ hash_cache' = r.cache
            /\ sha256_calls' = r.calls
    /\ pc' = "populated"
    /\ UNCHANGED <<config, arg, ret, raised>>

FooocusParseString ==
    /\ pc = "populated"
    /\ \E r \in {Fooocus_parse_string(parser, arg.entries, metadata_created_by)} :
           /\ raised' = r.raised
           /\ arg' = [arg EXCEPT !.entries = r.metadata]
           /\ ret' = r.text
    /\ pc' = "parse_string"
    /\ UNCHANGED <<config, hash_cache, sha256_calls, parser>>

NextFooocus == FooocusParseJson \/ FooocusSetData \/ FooocusParseString

SpecFooocus == InitFooocus /\ [][NextFooocus]_vars

\* the stems of a filename list
Stems(filenames) == {Stem(filenames[j]) : j \in 1..Len(filenames)}

\* item i of the mapping passed to parse_json names a model or LoRA that is not in
\* the corresponding known list
Unresolvable(i) ==
    LET key == arg.passed.metadata[i][1]
        value == arg.passed.metadata[i][2]
    IN  /\ value.type = "str"
        /\ value.value \notin {"", "None"}
        /\ \/ /\ key \in {"base_model", "refiner_model"}
              /\ value.value \notin Stems(model_filenames)
           \/ /\ IsLoraCombined(key)
              /\ Split(value.value, " : ")[1] \notin Stems(lora_filenames)

\* C3: where Fooocus parse_json returns, every base_model, refiner_model or
\* lora_combined_* item whose value is neither '' nor 'None' and matches no known
\* filename holds in the returned mapping the value that was passed in.
C3_UnresolvableLeftAsIs ==
    (pc = "parse_json" /\ raised = "") =>
        \A i \in 1..Len(arg.passed.metadata) :
            Unresolvable(i) => ret[i] = arg.passed.metadata[i]

\* C10: after Fooocus parse_json the caller's mapping holds the values it held
\* before the call, and after Fooocus parse_string the caller's entry list holds
\* the triples it held before the call.
C10_ArgumentsUnchanged ==
    /\ pc = "parse_json" => arg.metadata = arg.passed.metadata
    /\ pc = "parse_string" => arg.entries = arg.passed.entries

----------------------------------------------------------------------------
(* read_info_from_image.  json.loads is modelled for JSON texts made of    *)
(* objects, arrays, string literals, unsigned integers and null, true and  *)
(* false; the decoded value is tagged with its Python type.                *)

PyBool(b) == [type |-> "bool", value |-> b]

PyDict(d) == [type |-> "dict", value |-> d]

JsonFail == [ok |-> FALSE, value |-> PyNone, end |-> 0]

RECURSIVE DigitRunEnd(_, _)
\* the first index >= i of text that holds no digit
DigitRunEnd(text, i) ==
    IF i <= Len(text) /\ Char(text, i) \in Digits THEN DigitRunEnd(text, i + 1) ELSE i

\* word occurs in text at index i
OccursAt(text, i, word) ==
    i + Len(word) - 1 <= Len(text) /\ SubSeq(text, i, i + Len(word) - 1) = word

\* a string literal that opens at index i and whose body stops at index last
json_string_at(text, i, last, body) ==
    IF last <= Len(text) /\ Char(text, last) = "\"" /\ body.ok
    THEN [ok |-> TRUE, value |-> PyStr(body.s), end |-> last + 1]
    ELSE JsonFail

\* an integer literal from index i to index last - 1
json_int_at(text, i, last) ==
    IF last > i + 1 /\ Char(text, i) = "0" THEN JsonFail
    ELSE [ok |-> TRUE, value |-> PyInt(StrToNat(SubSeq(text, i, last - 1))), end |-> last]

RECURSIVE json_value_at(_, _)
RECURSIVE json_array_at(_, _, _)
RECURSIVE json_object_at(_, _, _)

\* after an array element r: a comma and the next element, or the closing bracket
json_array_next(text, r, acc, j) ==
    IF ~r.ok \/ j > Len(text) THEN JsonFail
    ELSE IF Char(text, j) = "]"
    THEN [ok |-> TRUE, value |-> PyList(Append(acc, r.value)), end |-> j + 1]
    ELSE IF Char(text, j) = ","
    THEN json_array_at(text, SkipSpace(text, j + 1), Append(acc, r.value))
    ELSE JsonFail

json_array_element(text, r, acc) ==
    json_array_next(text, r, acc, IF r.ok THEN SkipSpace(text, r.end) ELSE 0)

\* the elements of an array from index i on, acc those decoded before
json_array_at(text, i, acc) == json_array_element(text, json_value_at(text, i), acc)

\* after a member k: r of an object: a comma and the next member, or the closing brace
json_object_next(text, k, r, acc, j) ==
    IF ~r.ok \/ j > Len(text) THEN JsonFail
    ELSE IF Char(text, j) = "}"
    THEN [ok |-> TRUE, value |-> PyDict(Put(acc, k.value.value, r.value)), end |-> j + 1]
    ELSE IF Char(text, j) = ","
    THEN json_object_at(text, SkipSpace(text, j + 1), Put(acc, k.value.value, r.value))
    ELSE JsonFail

json_object_member(text, k, r, acc) ==
    json_object_next(text, k, r, acc, IF r.ok THEN SkipSpace(text, r.end) ELSE 0)

\* the colon after the key k of a member, at index j
json_object_colon(text, k, acc, j) ==
    IF ~k.ok \/ k.value.type # "str" \/ j > Len(text) \/ Char(text, j) # ":" THEN JsonFail
    ELSE json_object_member(text, k, json_value_at(text, SkipSpace(text, j + 1)), acc)

json_object_key(text, k, acc) ==
    json_object_colon(text, k, acc, IF k.ok THEN SkipSpace(text, k.end) ELSE 0)

\* the members of an object from index i on, acc those decoded before
json_object_at(text, i, acc) ==
    IF i > Len(text) \/ Char(text, i) # "\"" THEN JsonFail
    ELSE json_object_key(text, json_value_at(text, i), acc)

\* the JSON value that starts at index i of text: [ok, value, end]
json_value_at(text, i) ==
    IF i > Len(text) THEN JsonFail
    ELSE IF Char(text, i) = "\""
    THEN json_string_at(text, i, QuotedEnd(text, i + 1),
                        json_unescape(text, i + 1, QuotedEnd(text, i + 1)))
    ELSE IF Char(text, i) \in Digits THEN json_int_at(text, i, DigitRunEnd(text, i))
    ELSE IF OccursAt(text, i, "null") THEN [ok |-> TRUE, value |-> PyNone, end |-> i + 4]
    ELSE IF OccursAt(text, i, "true") THEN [ok |-> TRUE, value |-> PyBool(TRUE), end |-> i + 4]
    ELSE IF OccursAt(text, i, "false") THEN [ok |-> TRUE, value |-> PyBool(FALSE), end |-> i + 5]
    ELSE IF Char(text, i) = "["
    THEN IF OccursAt(text, SkipSpace(text, i + 1), "]")
         THEN [ok |-> TRUE, value |-> PyList(<<>>), end |-> SkipSpace(text, i + 1) + 1]
         ELSE json_array_at(text, SkipSpace(text, i + 1), <<>>)
    ELSE IF Char(text, i) = "{"
    THEN IF OccursAt(text, SkipSpace(text, i + 1), "}")
         THEN [ok |-> TRUE, value |-> PyDict(EmptyDict), end |-> SkipSpace(text, i + 1) + 1]
         ELSE json_object_at(text, SkipSpace(text, i + 1), EmptyDict)
    ELSE JsonFail

\* nothing but whitespace may follow the value
json_loads_whole(text, r) ==
    IF r.ok /\ SkipSpace(text, r.end) = Len(text) + 1
    THEN [ok |-> TRUE, value |-> r.value]
    ELSE [ok |-> FALSE, value |-> PyNone]

\* json.loads(text): [ok, value]; ok is FALSE where it raises
json_loads(text) == json_loads_whole(text, json_value_at(text, SkipSpace(text, 1)))

\* modules.util.is_json(data): whether data decodes as JSON; dict_only tells the two
\* readings of "structured" apart, any JSON value or a JSON object only
is_json(data, dict_only) ==
    json_loads(data).ok /\ (dict_only => json_loads(data).value.type = "dict")

\* the values of MetadataScheme
MetadataSchemes == {"fooocus", "a1111"}

\* dict.pop(key, None) on a dict of str: the value popped
Pop(items, key) == IF key \in DOMAIN items THEN PyStr(items[key]) ELSE PyNone

\* dict.pop(key, None) on a dict of str: the dict that is left
Without(items, key) == [k \in (DOMAIN items) \ {key} |-> items[k]]

\* "if parameters is not None and is_json(parameters): parameters = json.loads(...)"
decode_parameters(parameters, dict_only) ==
    IF parameters.type # "NoneType" /\ is_json(parameters.value, dict_only)
    THEN json_loads(parameters.value).value
    ELSE parameters

\* the try/except around MetadataScheme(tag)
declared_scheme(tag) ==
    IF tag.type = "str" /\ tag.value \in MetadataSchemes THEN tag ELSE PyNone

fallback_scheme_mapping_only(metadata_scheme, parameters) ==
    IF metadata_scheme.type = "NoneType" /\ parameters.type = "dict" THEN PyStr("fooocus")
    ELSE metadata_scheme

\* the two fallbacks on the type of parameters
fallback_scheme(metadata_scheme, parameters) ==
    IF metadata_scheme.type = "NoneType" /\ parameters.type = "dict" THEN PyStr("fooocus")
    ELSE IF metadata_scheme.type = "NoneType" /\ parameters.type = "str" THEN PyStr("a1111")
    ELSE metadata_scheme

\* read_info_from_image once parameters is decoded
read_info_decoded(info, parameters) ==
    [parameters |-> parameters,
     items |-> Without(Without(info, "parameters"), "fooocus_scheme"),
     metadata_scheme |->
         fallback_scheme(declared_scheme(Pop(Without(info, "parameters"), "fooocus_scheme")),
                         parameters)]

\* read_info_from_image for an image whose info is the dict info:
\* [parameters, items, metadata_scheme]
read_info_from_image(info, dict_only) ==
    read_info_decoded(info, decode_parameters(Pop(info, "parameters"), dict_only))

----------------------------------------------------------------------------
(* SpecImage: read_info_from_image is called on an image; arg is its info. *)

ParameterTexts ==
    {"cat", "cat\nNegative prompt: dog\nSteps: 20, Sampler: Euler, Seed: 1", "",
     "{\"prompt\": \"cat\", \"steps\": 30}", "{}", "{\"prompt\": \"cat\"",
     "\"cat\"", "[1, 2]", "[\"cat\"]", "12", "null", "true", "{\"a\": [1, {\"b\": null}]}"}

SchemeTags == {"fooocus", "a1111", "A1111", ""}

\* the image.info dicts: with or without parameters, a scheme tag and another field
ImageInfos ==
    {[k \in keys |-> IF k = "parameters" THEN p ELSE IF k = "fooocus_scheme" THEN t ELSE "72"] :
        keys \in SUBSET {"parameters", "fooocus_scheme", "dpi"},
        p \in ParameterTexts, t \in SchemeTags}

InitImage ==
    /\ model_filenames = <<>>
    /\ lora_filenames = <<sdxl_lcm_lora>>
    /\ metadata_created_by = ""
    /\ hash_cache = EmptyDict
    /\ sha256_calls = EmptyDict
    /\ parser = NewParser("")
    /\ pc = "start"
    /\ arg \in ImageInfos
    /\ ret = ""
    /\ raised = ""

ReadInfoFromImage ==
    /\ pc = "start"
    /\ \E dict_only \in BOOLEAN :
           ret' = read_info_from_image(arg, dict_only)
    /\ pc' = "read_info_from_image"
    /\ UNCHANGED <<config, hash_cache, sha256_calls, parser, arg, raised>>

NextImage == ReadInfoFromImage

SpecImage == InitImage /\ [][NextImage]_vars

\* the image carries a scheme tag that is a MetadataScheme value
TagValid == "fooocus_scheme" \in DOMAIN arg /\ arg["fooocus_scheme"] \in MetadataSchemes

\* C8 as stated: a valid tag is returned as the scheme; otherwise the scheme is
\* FOOOCUS when parameters decoded to a mapping, A1111 when parameters is text that
\* is not JSON, and null in every other case.
C8_AsStated ==
    pc = "read_info_from_image" =>
        IF TagValid THEN ret.metadata_scheme = PyStr(arg["fooocus_scheme"])
        ELSE IF ret.parameters.type = "dict" THEN ret.metadata_scheme = PyStr("fooocus")
        ELSE IF "parameters" \in DOMAIN arg /\ ~json_loads(arg["parameters"]).ok
        THEN ret.metadata_scheme = PyStr("a1111")
        ELSE ret.metadata_scheme = PyNone

\* C8: a valid tag is returned as the scheme whatever parameters is; otherwise the
\* scheme is FOOOCUS when the parameters returned is a mapping (as it is for every
\* JSON object text), A1111 when the parameters returned is text (as it is for
\* every text that is not JSON, and for JSON text that decodes to a string or is
\* left undecoded), and null when parameters is absent or was decoded to a value
\* that is neither a mapping nor text.
C8_SchemeDetection ==
    pc = "read_info_from_image" =>
        /\ TagValid => ret.metadata_scheme = PyStr(arg["fooocus_scheme"])
        /\ ~TagValid =>
            /\ ret.parameters.type = "dict" => ret.metadata_scheme = PyStr("fooocus")
            /\ ret.parameters.type = "str" => ret.metadata_scheme = PyStr("a1111")
            /\ ret.parameters.type \notin {"dict", "str"} => ret.metadata_scheme = PyNone
            /\ "parameters" \notin DOMAIN arg => ret.metadata_scheme = PyNone
            /\ ("parameters" \in DOMAIN arg /\ ~json_loads(arg["parameters"]).ok)
                   => ret.metadata_scheme = PyStr("a1111")
            /\ ("parameters" \in DOMAIN arg /\ json_loads(arg["parameters"]).ok
                    /\ json_loads(arg["parameters"]).value.type = "dict")
                   => ret.metadata_scheme = PyStr("fooocus")
            /\ ("parameters" \in DOMAIN arg /\ json_loads(arg["parameters"]).ok
                    /\ json_loads(arg["parameters"]).value.type = "str")
                   => ret.metadata_scheme = PyStr("a1111")

\* an untagged image whose parameters is JSON text that decodes to a string has
\* been read as A1111
C8_Witness ==
    /\ pc = "read_info_from_image"
    /\ ~TagValid
    /\ "parameters" \in DOMAIN arg
    /\ arg["parameters"] = "\"cat\""
    /\ ret.metadata_scheme = PyStr("a1111")

====
